---------------------------- MODULE Spec2Model ----------------------------
(***************************************************************************)
(* Model of lenovo-throttling-rust: the MSR planner (build_msr_updates in  *)
(* src/main.rs), the MSR access layer (src/msr.rs), the power source       *)
(* monitor thread (src/power.rs) and the main loop that applies the        *)
(* planned MSR updates on every power state received.                      *)
(*                                                                         *)
(* A 64-bit register value (u64) is modelled as the set of its set bit     *)
(* positions, a subset of 0..63: TLC's integers are 32 bits wide.  & is    *)
(* intersection, | is union, ! is the complement in 0..63, << and >> move  *)
(* the positions and drop those that leave 0..63.                          *)
(*                                                                         *)
(* An f64 that the program computes with (time unit, time limits, the      *)
(* configured durations) is modelled exactly as a dyadic number m * 2^e,   *)
(* the record [m |-> m, e |-> e]: every product the code forms is exact    *)
(* in f64 at these magnitudes.                                             *)
(***************************************************************************)
EXTENDS Integers, Sequences, FiniteSets, TLC

(***************************************************************************)
(* Option<T>                                                               *)
(***************************************************************************)
None == <<>>

Some(x) == <<x>>

IsSome(o) == o # <<>>

Unwrap(o) == o[1]

(***************************************************************************)
(* u64 as a set of bit positions                                           *)
(***************************************************************************)
AllBits == 0..63

BitRange(lo, hi) == lo..hi

\* the bits of a natural number below 2^31
BitsOf(n) == {i \in 0..30 : (n \div (2^i)) % 2 = 1}

RECURSIVE ValueUpTo(_, _)
ValueUpTo(w, n) ==
  IF n < 0 THEN 0 ELSE (IF n \in w THEN 2^n ELSE 0) + ValueUpTo(w, n - 1)

\* the number a word below 2^31 stands for
ValueOf(w) == ValueUpTo(w, 30)

Shl(w, k) == {b + k : b \in {x \in w : x + k <= 63}}

Shr(w, k) == {b - k : b \in {x \in w : x >= k}}

\* (w >> lo) & (2^width - 1), as a number
Field(w, lo, width) == ValueOf(Shr(w, lo) \cap (0..(width - 1)))

\* a word from four 16-bit limbs, least significant first
FromLimbs(l) ==
  BitsOf(l[1]) \cup Shl(BitsOf(l[2]), 16) \cup Shl(BitsOf(l[3]), 32)
    \cup Shl(BitsOf(l[4]), 48)

ToLimbs(w) == <<Field(w, 0, 16), Field(w, 16, 16), Field(w, 32, 16), Field(w, 48, 16)>>

(***************************************************************************)
(* f64 as an exact dyadic number m * 2^e, m >= 0 and below 2^10            *)
(***************************************************************************)
Dy(m, e) == [m |-> m, e |-> e]

DyMul(a, b) == [m |-> a.m * b.m, e |-> a.e + b.e]

\* a <= b
DyLeq(a, b) ==
  IF a.m = 0 THEN TRUE
  ELSE IF b.m = 0 THEN FALSE
  ELSE LET d == a.e - b.e
       IN IF d > 10 THEN FALSE
          ELSE IF d < -10 THEN TRUE
          ELSE IF d >= 0 THEN a.m * (2^d) <= b.m
          ELSE a.m <= b.m * (2^(0 - d))

DyLess(a, b) == ~DyLeq(b, a)

(***************************************************************************)
(* The registers                                                           *)
(***************************************************************************)
MSR_TEMPERATURE_TARGET == 418

MSR_RAPL_POWER_UNIT == 1542

MSR_PKG_POWER_LIMIT == 1552

Regs == {MSR_TEMPERATURE_TARGET, MSR_RAPL_POWER_UNIT, MSR_PKG_POWER_LIMIT}

(***************************************************************************)
(* ReadMsrBuilder::new(msr).read_first(): the value of the register on     *)
(* CPU 0, or an error when /dev/cpu/0/msr cannot be read at that offset.   *)
(* regs is CPU 0's register file, unreadable the registers whose read      *)
(* fails.                                                                  *)
(***************************************************************************)
read_first(regs, unreadable, reg) ==
  IF reg \in unreadable THEN [ok |-> FALSE, val |-> {}]
  ELSE [ok |-> TRUE, val |-> regs[reg]]

Min(a, b) == IF a <= b THEN a ELSE b

(***************************************************************************)
(* MSR_TEMPERATURE_TARGET                                                  *)
(***************************************************************************)
\* (msr_value >> 16) & 0b11111111
critical_temp_of(msr_value) == Field(msr_value, 16, 8)

\* the literal 0b11000000111111111111111111111111 as a u64
TempKeepMask == BitRange(0, 23) \cup BitRange(30, 31)

\* cmp::min(max_temp, critical_temp - 3) on u64; the subtraction wraps when
\* overflow checks are off and critical_temp < 3, and the minimum is then
\* max_temp itself
capped_max_temp(max_temp, critical_temp) ==
  IF critical_temp < 3 THEN max_temp ELSE Min(max_temp, critical_temp - 3)

\* ((critical_temp - max_temp) & 0b111111) << 24, the subtraction wrapping
trip_mask(critical_temp, max_temp) ==
  Shl(BitsOf((critical_temp - max_temp) % 64), 24)

\* lines 146-154: the new value of the register, or a panic where an
\* unsigned subtraction overflows in a build with overflow checks
temperature_target(max_temp_c, msr_value, overflow_checks) ==
  LET critical_temp == critical_temp_of(msr_value)
      max_temp == capped_max_temp(max_temp_c, critical_temp)
  IN IF overflow_checks /\ (critical_temp < 3 \/ critical_temp < max_temp)
     THEN [panic |-> TRUE, value |-> msr_value]
     ELSE [panic |-> FALSE,
           value |-> (msr_value \cap TempKeepMask)
                       \cup trip_mask(critical_temp, max_temp)]

(***************************************************************************)
(* MSR_RAPL_POWER_UNIT: the units are 1 / 2^PU watts and 1 / 2^TU seconds; *)
(* the model keeps the exponents PU and TU                                 *)
(***************************************************************************)
power_unit_exp(rapl_power_unit) == Field(rapl_power_unit, 0, 4)

time_unit_exp(rapl_power_unit) == Field(rapl_power_unit, 16, 4)

(***************************************************************************)
(* time_limits: the 128 triples (lim, y, z) in the order y, then z, with   *)
(* lim = 2^y * (1 + z/4) * time_unit, then sorted by lim (a stable sort)   *)
(***************************************************************************)
\* a table with steps of one half: lim = 2^y * (1 + z/2) * time_unit
time_limit_in_halves(y, z, tu) ==
  DyMul(DyMul(Dy(1, y), Dy(2 + z, -1)), Dy(1, 0 - tu))

time_limit(y, z, tu) == DyMul(DyMul(Dy(1, y), Dy(4 + z, -2)), Dy(1, 0 - tu))

unsorted_time_limits(tu) ==
  SubSeq([i \in 1..128 |->
            LET y == (i - 1) \div 4
                z == (i - 1) % 4
            IN [lim |-> time_limit(y, z, tu), y |-> y, z |-> z]], 1, 128)

\* arr.sort_by(|a, b| a.0.partial_cmp(&b.0).unwrap()), a stable sort: entry i
\* goes behind the entries that are smaller and the equal ones that came
\* before it
sorted_place(arr, i) ==
  1 + Cardinality({j \in 1..Len(arr) :
                     \/ DyLess(arr[j].lim, arr[i].lim)
                     \/ (~DyLess(arr[i].lim, arr[j].lim) /\ j < i)})

sort_by_lim(arr) ==
  LET n == Len(arr)
      place == SubSeq([i \in 1..n |-> sorted_place(arr, i)], 1, n)
  IN SubSeq([k \in 1..n |-> arr[CHOOSE i \in 1..n : place[i] = k]], 1, n)

\* the table for each of the 16 values of the time unit field, at tu + 1
time_limits_for ==
  SubSeq([i \in 1..16 |-> sort_by_lim(unsorted_time_limits(i - 1))], 1, 16)

time_limits(tu) == time_limits_for[tu + 1]

(***************************************************************************)
(* do_mask (lines 285-315): fold one power limit window into the working   *)
(* value new_power_limit.  pu and tu are the exponents of the power and    *)
(* time units.                                                             *)
(***************************************************************************)
\* a search that returns the last entry with duration <= lim
find_last_time_limit(table, duration) ==
  LET hits == {k \in DOMAIN table : DyLeq(duration, table[k].lim)}
  IN IF hits = {} THEN 0 ELSE CHOOSE k \in hits : \A h \in hits : k >= h

\* time_limits.iter().find(|&&(lim, _, _)| duration <= lim): the place of
\* the first entry with duration <= lim, 0 when there is none
find_time_limit(table, duration) ==
  LET hits == {k \in DOMAIN table : DyLeq(duration, table[k].lim)}
  IN IF hits = {} THEN 0 ELSE CHOOSE k \in hits : \A h \in hits : k <= h

\* (y | (z << 5)) as u64
time_window(y, z) == BitsOf(y) \cup Shl(BitsOf(z), 5)

\* (tdp as f64 / power_unit).round() as u64, with power_unit = 1 / 2^pu: the
\* quotient is tdp * 2^pu, exact in f64 for tdp below 2^31
power_limit(tdp, pu) == Shl(BitsOf(tdp), pu)

\* a mask that clears nothing
clear_nothing(offset) == AllBits

\* !(0b111111100111111111111111 << offset)
clear_mask(offset) == AllBits \ Shl(BitRange(0, 14) \cup BitRange(17, 23), offset)

\* (pl | (1 << 15) | tw << 17) << offset
set_mask(pl, tw, offset) == Shl(pl \cup {15} \cup Shl(tw, 17), offset)

do_mask(new_power_limit, tdp, duration, offset, pu, tu) ==
  LET table == time_limits(tu)
      k == find_time_limit(table, duration)
  IN IF k = 0
     THEN [panic |-> TRUE, value |-> new_power_limit]   \* unwrap() of None
     ELSE LET tw == time_window(table[k].y, table[k].z)
              pl == power_limit(tdp, pu)
          IN [panic |-> FALSE,
              value |-> (new_power_limit \cap clear_mask(offset))
                          \cup set_mask(pl, tw, offset)]

\* lines 318-329: PL1 at offset 0, then PL2 at offset 32, each only when both
\* its power and its duration are configured
fold_window(acc, tdp_w, duration, offset, pu, tu) ==
  IF acc.panic THEN acc
  ELSE IF IsSome(tdp_w) /\ IsSome(duration)
  THEN do_mask(acc.value, Unwrap(tdp_w), Unwrap(duration), offset, pu, tu)
  ELSE acc

\* line 333: the update is pushed if the value has changed
power_limit_updates(initial_power_limit, new_power_limit) ==
  IF new_power_limit # initial_power_limit
  THEN <<<<MSR_PKG_POWER_LIMIT, new_power_limit>>>>
  ELSE <<>>

\* line 159: the update of MSR_TEMPERATURE_TARGET is pushed
temperature_updates(msr_value, new_value) ==
  <<<<MSR_TEMPERATURE_TARGET, new_value>>>>

(***************************************************************************)
(* build_msr_updates (lines 119-340): Ok with the list of (msr, value)     *)
(* pairs to write, Err when a register cannot be read, Panic when a        *)
(* subtraction overflows or no time limit is found.                        *)
(***************************************************************************)
Result(status, updates) == [status |-> status, updates |-> updates]

build_power_limit(conf, regs, unreadable, temp_updates) ==
  LET units == read_first(regs, unreadable, MSR_RAPL_POWER_UNIT)
      limit == read_first(regs, unreadable, MSR_PKG_POWER_LIMIT)
  IN IF ~units.ok \/ ~limit.ok THEN Result("Err", <<>>)
     ELSE LET pu == power_unit_exp(units.val)
              tu == time_unit_exp(units.val)
              seed == [panic |-> FALSE, value |-> limit.val]
              pl1 == fold_window(seed, conf.pl1_tdp_w, conf.pl1_duration, 0, pu, tu)
              pl2 == fold_window(pl1, conf.pl2_tdp_w, conf.pl2_duration, 32, pu, tu)
          IN IF pl2.panic THEN Result("Panic", <<>>)
             ELSE Result("Ok", temp_updates \o power_limit_updates(limit.val, pl2.value))

build_msr_updates(conf, regs, unreadable, overflow_checks) ==
  IF IsSome(conf.maximum_temp_c)
  THEN LET target == read_first(regs, unreadable, MSR_TEMPERATURE_TARGET)
       IN IF ~target.ok THEN Result("Err", <<>>)
          ELSE LET t == temperature_target(Unwrap(conf.maximum_temp_c), target.val,
                                           overflow_checks)
               IN IF t.panic THEN Result("Panic", <<>>)
                  ELSE build_power_limit(conf, regs, unreadable,
                                         temperature_updates(target.val, t.value))
  ELSE build_power_limit(conf, regs, unreadable, <<>>)

(***************************************************************************)
(* The state                                                               *)
(***************************************************************************)
\* num_cpus::get()
NumCpus == 3

CPUs == 0..(NumCpus - 1)

AC == "AC"

Battery == "Battery"

VARIABLES
  config,               \* config.toml as read_config parses it: None if it
                        \* cannot be read or parsed, else Some([battery, ac])
  overflow_checks,      \* whether the build panics on integer overflow
  msr,                  \* msr[cpu][reg]: the registers of every logical CPU
  unreadable,           \* the registers whose read on CPU 0 fails
  write_fails,          \* the CPUs on which a write to /dev/cpu/N/msr fails
  main_pc,              \* where main is
  msr_updates_battery,  \* main's msr_updates_battery
  msr_updates_ac,       \* main's msr_updates_ac
  initial,              \* main's initial: Some(state) once notify returned
  batch,                \* the rest of msr_updates that main still writes
  ac_online,            \* /sys/class/power_supply/AC/online: "1", "0", "absent"
  mon_pc,               \* where the monitor thread is
  current_state,        \* the thread's current_state
  new_state,            \* the state the thread is sending
  inbox,                \* the D-Bus messages queued on the connection
  changes,              \* history: how often the power source has changed
  observed,             \* history: the states the monitor has read, "Err"
                        \* for a read that failed
  received,             \* history: what main has received, with the number
                        \* of the change that was observed
  refused,              \* history: the states whose send returned an error
  write_log,            \* history: the calls of WriteMsrBuilder::write
  truncated             \* history: TRUE once the histories have been given
                        \* up, the program running on; they are empty then

hw_vars == <<msr, unreadable, write_fails, overflow_checks, config>>

plan_vars == <<msr_updates_battery, msr_updates_ac>>

mon_vars == <<mon_pc, current_state, new_state, inbox>>

hist_vars == <<changes, observed, received, refused, write_log, truncated>>

vars == <<config, overflow_checks, msr, unreadable, write_fails, main_pc,
          msr_updates_battery, msr_updates_ac, initial, batch, ac_online,
          mon_pc, current_state, new_state, inbox, changes, observed, received,
          refused, write_log, truncated>>

(***************************************************************************)
(* main, lines 57-68: read the configuration and build both update lists   *)
(***************************************************************************)
\* lines 58-64: a configuration error is reported and main returns; the
\* eprintln! of line 61 panics when stderr cannot be written
ReadConfig ==
  /\ main_pc = "read_config"
  /\ IF IsSome(config) THEN main_pc' = "build_battery"
     ELSE main_pc' \in {"exited", "panicked"}
  /\ UNCHANGED <<hw_vars, plan_vars, initial, batch, ac_online, mon_vars, hist_vars>>

\* line 67: build_msr_updates(&config.battery).unwrap()
BuildBattery ==
  /\ main_pc = "build_battery"
  /\ LET r == build_msr_updates(Unwrap(config).battery, msr[0], unreadable,
                                overflow_checks)
     IN \/ /\ r.status = "Ok"
           /\ msr_updates_battery' = r.updates
           /\ main_pc' = "build_ac"
        \/ /\ r.status # "Ok"
           /\ msr_updates_battery' = msr_updates_battery
           /\ main_pc' = "panicked"
  /\ UNCHANGED <<hw_vars, msr_updates_ac, initial, batch, ac_online, mon_vars, hist_vars>>

\* line 68: build_msr_updates(&config.ac).unwrap()
BuildAc ==
  /\ main_pc = "build_ac"
  /\ LET r == build_msr_updates(Unwrap(config).ac, msr[0], unreadable,
                                overflow_checks)
     IN \/ /\ r.status = "Ok"
           /\ msr_updates_ac' = r.updates
           /\ main_pc' = "notify"
        \/ /\ r.status # "Ok"
           /\ msr_updates_ac' = msr_updates_ac
           /\ main_pc' = "panicked"
  /\ UNCHANGED <<hw_vars, msr_updates_battery, initial, batch, ac_online, mon_vars, hist_vars>>

\* main.rs line 65, and lines 156-157, 199-200, 278 and 294 inside
\* build_msr_updates: a println! of the start-up panics when stdout cannot
\* be written
PrintPanics ==
  /\ main_pc \in {"build_battery", "build_ac"}
  /\ main_pc' = "panicked"
  /\ UNCHANGED <<hw_vars, plan_vars, initial, batch, ac_online, mon_vars, hist_vars>>

(***************************************************************************)
(* The inputs                                                              *)
(***************************************************************************)
ModeConfig(tdp1, dur1, tdp2, dur2, temp) ==
  [pl1_tdp_w |-> tdp1, pl1_duration |-> dur1,
   pl2_tdp_w |-> tdp2, pl2_duration |-> dur2, maximum_temp_c |-> temp]

NoLimits == ModeConfig(None, None, None, None, None)

\* MSR_RAPL_POWER_UNIT with the power unit 1 / 2^pu and the time unit 1 / 2^tu
UnitsRaw(pu, tu) == BitsOf(pu) \cup Shl(BitsOf(tu), 16)

\* MSR_TEMPERATURE_TARGET with the critical temperature and other bits
TempRaw(critical, other) == Shl(BitsOf(critical), 16) \cup other

InitWith(configs, temps, units, limits, unread, checks, onlines, wfails) ==
  /\ config \in configs
  /\ overflow_checks \in checks
  /\ \E t \in temps, u \in units, l \in limits :
       msr = [c \in CPUs |->
                [r \in Regs |-> IF r = MSR_TEMPERATURE_TARGET THEN t
                                ELSE IF r = MSR_RAPL_POWER_UNIT THEN u ELSE l]]
  /\ unreadable \in unread
  /\ write_fails \in wfails
  /\ main_pc = "read_config"
  /\ msr_updates_battery = <<>>
  /\ msr_updates_ac = <<>>
  /\ initial = None
  /\ batch = <<>>
  /\ ac_online \in onlines
  /\ mon_pc = "unspawned"
  /\ current_state = AC
  /\ new_state = AC
  /\ inbox = <<>>
  /\ changes = 0
  /\ observed = <<>>
  /\ received = <<>>
  /\ refused = <<>>
  /\ write_log = <<>>
  /\ truncated = FALSE

(***************************************************************************)
(* The planner alone, on a wide range of configurations and registers      *)
(***************************************************************************)
PlanModes ==
  {ModeConfig(tdp1, dur1, tdp2, dur2, temp) :
     tdp1 \in {None, Some(45), Some(8192), Some(2^29)},
     dur1 \in {None, Some(Dy(28, 0)), Some(Dy(7, 30))},
     tdp2 \in {None, Some(60), Some(5000)},
     dur2 \in {None, Some(Dy(5, -1))},
     temp \in {None, Some(36), Some(85), Some(99)}}

PlanConfigs ==
  {None} \cup {Some([battery |-> m, ac |-> NoLimits]) : m \in PlanModes}
         \cup {Some([battery |-> NoLimits, ac |-> m]) : m \in PlanModes}

PlanTemps ==
  {TempRaw(c, o) : c \in {2, 100},
                   o \in {{}, {0, 15, 25, 30, 31, 32, 47, 63}, {24, 25, 26, 27}}}

PlanUnits == {UnitsRaw(3, 10), UnitsRaw(0, 15)}

PlanLimits ==
  { {}, 0..62, {16, 24, 48, 56, 63},
    {3, 5, 6, 8, 15, 18, 19, 20, 22, 23} }

InitPlan ==
  InitWith(PlanConfigs, PlanTemps, PlanUnits, PlanLimits,
           {{}, {MSR_PKG_POWER_LIMIT}}, BOOLEAN, {"1"}, {{}})

NextPlan == ReadConfig \/ BuildBattery \/ BuildAc \/ PrintPanics

SpecPlan == InitPlan /\ [][NextPlan]_vars

(***************************************************************************)
(* The time window search alone: one window, every time unit, durations    *)
(* below, at, between and above the entries of the table                   *)
(***************************************************************************)
QuantizeDurations ==
  {Dy(0, 0), Dy(1, -16), Dy(1, -15), Dy(1, -10), Dy(41, -15), Dy(5, -1),
   Dy(28, 0), Dy(225, -3), Dy(7, 14), Dy(57, 11), Dy(7, 29), Dy(57, 26),
   Dy(7, 30), Dy(1, 31)}

QuantizeModes ==
  {ModeConfig(Some(45), Some(d), None, None, None) : d \in QuantizeDurations}
    \cup {ModeConfig(None, None, Some(60), Some(d), None) : d \in QuantizeDurations}

QuantizeConfigs ==
  {Some([battery |-> m, ac |-> NoLimits]) : m \in QuantizeModes}
    \cup {Some([battery |-> NoLimits, ac |-> m]) : m \in QuantizeModes}

QuantizeUnits == {UnitsRaw(3, tu) : tu \in 0..15}

InitQuantize ==
  InitWith(QuantizeConfigs, {TempRaw(100, {})}, QuantizeUnits, {{}, 0..62},
           {{}}, BOOLEAN, {"1"}, {{}})

SpecQuantize == InitQuantize /\ [][NextPlan]_vars

(***************************************************************************)
(* power.rs: is_on_battery, notify_on_power_change, poll_dbus              *)
(***************************************************************************)
\* how many changes of the power source the histories cover
MaxChanges == 3

\* how many reads of the monitor the histories cover, the initial read
\* included
MaxObserved == 5

\* how many D-Bus messages wait on the connection
MaxInbox == 2

\* lines 109-130: AC if the file holds "1\n", Battery if it holds anything
\* else or is absent
is_on_battery(online) == IF online = "1" THEN AC ELSE Battery

\* lines 86-90: the state an integer 'Online' property stands for
state_of_online(i) == IF i = 0 THEN Battery ELSE AC

\* the test that always emits
always_changed(new, current) == TRUE

\* lines 49 and 92: new_state != current_state
state_changed(new, current) == new # current

\* the D-Bus connection exists and matches PropertiesChanged of line_power_AC
Subscribed == mon_pc \in {"incoming", "send_dbus"}

Sending == mon_pc \in {"send_dbus", "send_poll"}

\* the histories cover the first MaxChanges changes of the power source and
\* the first MaxObserved reads of the monitor; the step that passes either
\* gives them up, and the program runs on without them
Forget ==
  /\ truncated' = TRUE
  /\ changes' = 0
  /\ observed' = <<>>
  /\ received' = <<>>
  /\ refused' = <<>>
  /\ write_log' = <<>>

\* history: the monitor has read e
Observe(e) ==
  IF ~truncated /\ Len(observed) < MaxObserved
  THEN /\ observed' = Append(observed, e)
       /\ UNCHANGED <<changes, received, refused, write_log, truncated>>
  ELSE Forget

\* a main that writes the updates of the initial state before its loop
NotifyAppliesInitial ==
  /\ main_pc = "notify"
  /\ \/ /\ initial' = Some(is_on_battery(ac_online))
        /\ current_state' = is_on_battery(ac_online)
        /\ observed' = <<<<is_on_battery(ac_online), changes>>>>
        /\ mon_pc' = "connect"
        /\ batch' = IF is_on_battery(ac_online) = "Battery"
                    THEN msr_updates_battery ELSE msr_updates_ac
        /\ main_pc' = IF batch' = <<>> THEN "recv" ELSE "write"
     \/ /\ main_pc' = "panicked"
        /\ UNCHANGED <<initial, current_state, observed, mon_pc, batch>>
  /\ UNCHANGED <<hw_vars, plan_vars, ac_online, new_state, inbox, changes, received,
                 refused, write_log, truncated>>

\* lines 21-63: the initial read, then the thread is spawned; a failed read
\* is returned as an error, which main unwraps
Notify ==
  /\ main_pc = "notify"
  /\ \/ /\ initial' = Some(is_on_battery(ac_online))
        /\ current_state' = is_on_battery(ac_online)
        /\ observed' = <<<<is_on_battery(ac_online), changes>>>>
        /\ mon_pc' = "connect"
        /\ main_pc' = "recv"
     \/ /\ main_pc' = "panicked"
        /\ UNCHANGED <<initial, current_state, observed, mon_pc>>
  /\ UNCHANGED <<hw_vars, plan_vars, batch, ac_online, new_state, inbox, changes, received,
                 refused, write_log, truncated>>

\* lines 71-72: the connection and the match rule; an error ends poll_dbus
\* and is reported by the eprintln! of line 35, which panics when stderr
\* cannot be written: the thread then ends and drops the Sender
DbusConnect ==
  /\ main_pc # "exited"
  /\ mon_pc = "connect"
  /\ \/ mon_pc' = "incoming"
     \/ mon_pc' = "sleep"
     \/ mon_pc' = "ended"
  /\ UNCHANGED <<hw_vars, plan_vars, main_pc, initial, batch, ac_online, current_state,
                 new_state, inbox, hist_vars>>

\* lines 76-103: one message of conn.incoming
DbusMessage ==
  /\ main_pc # "exited"
  /\ mon_pc = "incoming"
  /\ inbox # <<>>
  /\ LET msg == Head(inbox)
     IN \/ /\ msg.kind = "unreadable"       \* read2 fails: the message is skipped
           /\ inbox' = Tail(inbox)
           /\ UNCHANGED <<mon_pc, new_state, hist_vars>>
        \/ /\ msg.kind = "online"           \* an integer 'Online'
           /\ inbox' = Tail(inbox)
           /\ Observe(<<state_of_online(msg.online), msg.change>>)
           /\ IF state_changed(state_of_online(msg.online), current_state)
              THEN /\ mon_pc' = "send_dbus"
                   /\ new_state' = state_of_online(msg.online)
              ELSE UNCHANGED <<mon_pc, new_state>>
        \/ /\ msg.kind = "other"            \* bail!("unknown message received"),
           /\ inbox' = <<>>                 \* reported by the eprintln! of line
           /\ \/ mon_pc' = "sleep"          \* 35, which may panic
              \/ mon_pc' = "ended"
           /\ UNCHANGED <<new_state, hist_vars>>
  /\ UNCHANGED <<hw_vars, plan_vars, main_pc, initial, batch, ac_online, current_state>>

\* lines 44-59: one round of the polling loop
PollSysfs ==
  /\ main_pc # "exited"
  /\ mon_pc = "sleep"
  /\ \/ /\ Observe(<<is_on_battery(ac_online), changes>>)
        /\ IF state_changed(is_on_battery(ac_online), current_state)
           THEN /\ mon_pc' = "send_poll"
                /\ new_state' = is_on_battery(ac_online)
           ELSE UNCHANGED <<mon_pc, new_state>>
     \/ /\ Observe(<<"Err", changes>>)               \* Err(e): reported by the
        /\ \/ UNCHANGED mon_pc                       \* eprintln! of line 56,
           \/ mon_pc' = "ended"                      \* which may panic
        /\ UNCHANGED new_state
  /\ UNCHANGED <<hw_vars, plan_vars, main_pc, initial, batch, ac_online, current_state,
                 inbox>>

(***************************************************************************)
(* msr.rs: WriteMsrBuilder::write                                          *)
(***************************************************************************)
\* lines 104-112, write_one_msr: the eight bytes of val are written at the
\* offset of the register
wrmsr(old, reg, val) == val

\* the first CPU whose write fails, NumCpus if none does
first_failure(fails) ==
  IF fails = {} THEN NumCpus ELSE CHOOSE k \in fails : \A f \in fails : k <= f

\* lines 81-90: CPU by CPU in ascending order, returning at the first error
write_all(m, reg, val, fails) ==
  [c \in CPUs |->
     IF c < first_failure(fails)
     THEN [m[c] EXCEPT ![reg] = wrmsr(m[c][reg], reg, val)]
     ELSE m[c]]

\* the CPUs write_one is called for, in the order of the calls
write_attempts(fails) ==
  [i \in 1..Min(first_failure(fails) + 1, NumCpus) |-> i - 1]

\* what write returns
write_result(fails) == IF first_failure(fails) = NumCpus THEN "Ok" ELSE "Err"

\* how a call of write ends: it returns, or the eprintln! of line 84 that
\* reports the failing CPU panics
write_outcomes(fails) ==
  IF write_result(fails) = "Err" THEN {"Err", "Panic"} ELSE {"Ok"}

(***************************************************************************)
(* main, lines 73-108                                                      *)
(***************************************************************************)
\* lines 96-99
select_updates(power_state, updates_battery, updates_ac) ==
  IF power_state = Battery THEN updates_battery ELSE updates_ac

\* lines 74-99: the rendezvous; send returns in the thread, which stores
\* new_state in current_state, and main selects the updates of the state
Receive ==
  /\ main_pc = "recv"
  /\ Sending
  /\ IF truncated THEN UNCHANGED hist_vars
     ELSE /\ received' = Append(received, <<new_state, observed[Len(observed)][2]>>)
          /\ UNCHANGED <<changes, observed, refused, write_log, truncated>>
  /\ current_state' = new_state
  /\ mon_pc' = IF mon_pc = "send_dbus" THEN "incoming" ELSE "sleep"
  /\ batch' = select_updates(new_state, msr_updates_battery, msr_updates_ac)
  /\ main_pc' = IF batch' = <<>> THEN "recv" ELSE "write"
  /\ UNCHANGED <<hw_vars, plan_vars, initial, ac_online, new_state, inbox>>

\* lines 102-107: one (msr, value) of the list; an error is reported.
\* Inside write, the failure of a CPU is reported by the eprintln! of
\* msr.rs line 84 before the error is returned: when stderr cannot be
\* written it panics, write does not return and main unwinds
WriteMsr ==
  /\ main_pc = "write"
  /\ msr' = write_all(msr, Head(batch)[1], Head(batch)[2], write_fails)
  /\ \E result \in write_outcomes(write_fails) :
       /\ IF truncated THEN UNCHANGED hist_vars
          ELSE /\ write_log' = Append(write_log,
                                      [msr |-> Head(batch)[1], value |-> Head(batch)[2],
                                       cpus |-> write_attempts(write_fails),
                                       result |-> result,
                                       after |-> Len(received)])
               /\ UNCHANGED <<changes, observed, received, refused, truncated>>
       /\ IF result = "Panic"
          THEN /\ main_pc' = "panicked"
               /\ UNCHANGED batch
          ELSE /\ batch' = Tail(batch)
               /\ main_pc' = IF batch' = <<>> THEN "recv" ELSE "write"
  /\ UNCHANGED <<config, overflow_checks, unreadable, write_fails, plan_vars, initial,
                 ac_online, mon_vars>>

(***************************************************************************)
(* The end of main's thread while the monitor thread runs                  *)
(***************************************************************************)
\* main.rs lines 71, 76, 104 and 105: println! and eprintln! panic when the
\* stream cannot be written; main unwinds and drops power_change, the only
\* receiver of the channel (the panic inside write is an outcome of WriteMsr)
ConsumerDrops ==
  /\ main_pc \in {"recv", "write"}
  /\ main_pc' = "panicked"
  /\ UNCHANGED <<hw_vars, plan_vars, initial, batch, ac_online, mon_vars, hist_vars>>

\* the receiver is gone and the thread still runs
Disconnected == main_pc = "panicked" /\ mon_pc \notin {"unspawned", "ended"}

\* main.rs line 80, disconnected() => break 'outer: the thread has ended
\* and dropped the only Sender; main leaves its loop and returns
SelectDisconnected ==
  /\ main_pc = "recv"
  /\ mon_pc = "ended"
  /\ main_pc' = "exited"
  /\ UNCHANGED <<hw_vars, plan_vars, initial, batch, ac_online, mon_vars, hist_vars>>

\* power.rs lines 50-51 and 93-94: send returns Err(SendError) once the
\* receiver is dropped; the result is not looked at, current_state is set
\* and the loop goes on
SendDisconnected ==
  /\ Sending
  /\ Disconnected
  /\ IF truncated THEN UNCHANGED hist_vars
     ELSE /\ refused' = Append(refused, new_state)
          /\ UNCHANGED <<changes, observed, received, write_log, truncated>>
  /\ current_state' = new_state
  /\ mon_pc' = IF mon_pc = "send_dbus" THEN "incoming" ELSE "sleep"
  /\ UNCHANGED <<hw_vars, plan_vars, main_pc, initial, batch, ac_online, new_state, inbox>>

\* the process ends once main's thread has unwound, and the monitor thread
\* with it, wherever it is
ProcessExit ==
  /\ main_pc = "panicked"
  /\ main_pc' = "exited"
  /\ UNCHANGED <<hw_vars, plan_vars, initial, batch, ac_online, mon_vars, hist_vars>>

(***************************************************************************)
(* The environment: the power source and the system bus                    *)
(***************************************************************************)
OnlineMessage(online, change) == [kind |-> "online", online |-> online, change |-> change]

OtherMessage(kind) == [kind |-> kind, online |-> 0, change |-> 0]

\* the power source changes; UPower signals the new 'Online' to subscribers
PowerChange ==
  /\ IsSome(initial)
  /\ Subscribed => Len(inbox) < MaxInbox
  /\ IF ~truncated /\ changes < MaxChanges
     THEN /\ changes' = changes + 1
          /\ UNCHANGED <<observed, received, refused, write_log, truncated>>
     ELSE Forget
  /\ ac_online' = IF ac_online = "1" THEN "0" ELSE "1"
  /\ inbox' = IF Subscribed
              THEN Append(inbox, OnlineMessage(IF ac_online' = "1" THEN 1 ELSE 0, changes'))
              ELSE inbox
  /\ UNCHANGED <<hw_vars, plan_vars, main_pc, initial, batch, mon_pc, current_state,
                 new_state>>

\* the bus delivers something else: the current 'Online' once more, a
\* PropertiesChanged without an integer 'Online', or a message that is not
\* a (name, properties) pair
BusMessage ==
  /\ Subscribed
  /\ Len(inbox) < MaxInbox
  /\ \/ inbox' = Append(inbox, OnlineMessage(IF ac_online = "1" THEN 1 ELSE 0, changes))
     \/ inbox' = Append(inbox, OtherMessage("other"))
     \/ inbox' = Append(inbox, OtherMessage("unreadable"))
  /\ UNCHANGED <<hw_vars, plan_vars, main_pc, initial, batch, ac_online, mon_pc,
                 current_state, new_state, hist_vars>>

(***************************************************************************)
(* The program                                                             *)
(***************************************************************************)
BatteryMode == ModeConfig(Some(45), Some(Dy(28, 0)), Some(60), Some(Dy(5, -1)), Some(85))

AcMode == ModeConfig(Some(45), Some(Dy(28, 0)), None, None, None)

Init ==
  InitWith({None, Some([battery |-> BatteryMode, ac |-> AcMode])},
           {TempRaw(100, {})}, {UnitsRaw(3, 10)}, {{}},
           {{}, {MSR_TEMPERATURE_TARGET}}, {FALSE}, {"1", "0", "absent"},
           {{}, {1}, {0, 2}})

Next ==
  \/ ReadConfig
  \/ BuildBattery
  \/ BuildAc
  \/ Notify
  \/ DbusConnect
  \/ DbusMessage
  \/ PollSysfs
  \/ Receive
  \/ WriteMsr
  \/ PrintPanics
  \/ SelectDisconnected
  \/ ConsumerDrops
  \/ SendDisconnected
  \/ ProcessExit
  \/ PowerChange
  \/ BusMessage

Spec == Init /\ [][Next]_vars

(***************************************************************************)
(* What the claims speak about                                             *)
(***************************************************************************)
\* the plans main holds that were built from the registers as they are now:
\* <<mode configuration, update list>>
Plans ==
  IF main_pc = "build_ac"
  THEN {<<Unwrap(config).battery, msr_updates_battery>>}
  ELSE IF main_pc = "notify"
  THEN {<<Unwrap(config).battery, msr_updates_battery>>,
        <<Unwrap(config).ac, msr_updates_ac>>}
  ELSE {}

\* the values a list of updates holds for a register
UpdatesFor(updates, reg) ==
  {updates[i][2] : i \in {j \in DOMAIN updates : updates[j][1] = reg}}

\* the value register reg has once the updates are written
PlannedValue(updates, reg) ==
  IF UpdatesFor(updates, reg) = {} THEN msr[0][reg]
  ELSE CHOOSE v \in UpdatesFor(updates, reg) : TRUE

\* the power limit windows: <<offset, power, duration>>
Windows(mode) ==
  {<<0, mode.pl1_tdp_w, mode.pl1_duration>>,
   <<32, mode.pl2_tdp_w, mode.pl2_duration>>}

Configured(w) == IsSome(w[2]) /\ IsSome(w[3])

\* pl = tdp_w / power_unit_w, the power unit being 1 / 2^bits[0:3] of 0x606
PlOf(w) == Unwrap(w[2]) * (2^Field(msr[0][MSR_RAPL_POWER_UNIT], 0, 4))

\* pl fits in 15 bits
PlFits(w) == Unwrap(w[2]) < 2^15 /\ PlOf(w) < 2^15

\* (y, z) is the smallest tabulated duration that is >= d
IsCeiling(y, z, d, tu) ==
  /\ DyLeq(d, time_limit(y, z, tu))
  /\ \A y2 \in 0..31, z2 \in 0..3 :
       DyLeq(d, time_limit(y2, z2, tu))
         => DyLeq(time_limit(y, z, tu), time_limit(y2, z2, tu))

\* the states the monitor has read, the initial read first; a read that
\* failed gave none
ObservedStates ==
  LET reads == SelectSeq(observed, LAMBDA o : o[1] # "Err")
  IN [i \in 1..Len(reads) |-> reads[i][1]]

\* the states main has received
ReceivedStates == [i \in 1..Len(received) |-> received[i][1]]

\* the states the monitor has passed to send: those main received, those
\* whose send failed after main had gone, and the one being sent
Emitted == ReceivedStates \o refused \o (IF Sending THEN <<new_state>> ELSE <<>>)

\* the reads that differ from the last known state, last being that state
RECURSIVE ChangesOnly(_, _)
ChangesOnly(last, reads) ==
  IF reads = <<>> THEN <<>>
  ELSE IF Head(reads) # last
  THEN <<Head(reads)>> \o ChangesOnly(Head(reads), Tail(reads))
  ELSE ChangesOnly(last, Tail(reads))

\* C1: subscribed, polling and across the fallback, the monitor emits a state
\* it reads iff it differs from the last known state and updates the last
\* known state only then: the first emitted state differs from the initial
\* one, no two consecutive emitted states are equal, and the reads
\* [AC, AC, Battery, Battery, AC] emit exactly [Battery, AC]
C1_EmitIffChanged ==
  (IsSome(initial) /\ ~truncated) =>
    /\ Emitted = ChangesOnly(Unwrap(initial), Tail(ObservedStates))
    /\ current_state = (<<Unwrap(initial)>> \o ReceivedStates \o refused)
                         [Len(received) + Len(refused) + 1]
    /\ Emitted # <<>> => Emitted[1] # Unwrap(initial)
    /\ \A i \in 1..(Len(Emitted) - 1) : Emitted[i] # Emitted[i + 1]
    /\ ObservedStates = <<AC, AC, Battery, Battery, AC>> => Emitted = <<Battery, AC>>

\* C1 witness: the reads [AC, AC, Battery, Battery, AC], begun on the bus and
\* finished by polling, have emitted [Battery, AC]
C1_Witness ==
  /\ ObservedStates = <<AC, AC, Battery, Battery, AC>>
  /\ ReceivedStates = <<Battery, AC>>
  /\ mon_pc = "sleep"
  /\ received[1][2] = 1

\* C2 (as claimed): every change of the power source after the initial read
\* is delivered to main, in order and with none missed: the i-th state main
\* receives is the one the i-th change led to, and once the subscribed
\* monitor has handled every notification main has received every change
C2_EveryChangeDeliveredInOrder ==
  ~truncated =>
    /\ \A i \in 1..Len(received) : received[i][2] = i
    /\ (mon_pc = "incoming" /\ inbox = <<>>) => Len(received) = changes

\* C3 (as claimed): the updates main applies on a transition are those that
\* build_msr_updates plans for the new state's mode from the registers as
\* they are when the transition is received
C3_PlannedFromFreshSnapshot ==
  [][(main_pc = "recv" /\ Len(received') = Len(received) + 1) =>
       batch' = build_msr_updates(
                  IF new_state = Battery THEN Unwrap(config).battery
                  ELSE Unwrap(config).ac,
                  msr[0], unreadable, overflow_checks).updates]_vars

\* C4 (as claimed): the planned value of 0x1A2 equals the raw value on every
\* bit position outside 24..29
C4_TempOtherBitsPreserved ==
  \A p \in Plans : \A v \in UpdatesFor(p[2], MSR_TEMPERATURE_TARGET) :
    v \ (24..29) = msr[0][MSR_TEMPERATURE_TARGET] \ (24..29)

\* C5 (as claimed): the trip delta in bits 24..29 of the planned value of
\* 0x1A2 is critical - min(configured max, critical - 3) and at least 3
C5_TripKeepsThreeBelowCritical ==
  \A p \in Plans : \A v \in UpdatesFor(p[2], MSR_TEMPERATURE_TARGET) :
    LET critical == Field(msr[0][MSR_TEMPERATURE_TARGET], 16, 8)
        trip == Field(v, 24, 6)
    IN /\ trip >= 3
       /\ trip = critical - Min(Unwrap(p[1].maximum_temp_c), critical - 3)

\* C6 (as claimed): planning fails when the pl of a configured window does
\* not fit in 15 bits, so no plan exists for such a window
C6_OverflowFailsPlanning ==
  \A p \in Plans : \A w \in Windows(p[1]) : Configured(w) => PlFits(w)

\* C7 (as claimed): every update in a plan differs from the value read from
\* its register
C7_UpdatesDifferFromOriginal ==
  \A p \in Plans : \A i \in DOMAIN p[2] : p[2][i][2] # msr[0][p[2][i][1]]

\* C8 (as claimed): with the lock bit 63 of 0x610 read as set, no update of
\* 0x610 is planned
C8_NoUpdateWhenLocked ==
  \A p \in Plans :
    63 \in msr[0][MSR_PKG_POWER_LIMIT] => UpdatesFor(p[2], MSR_PKG_POWER_LIMIT) = {}

\* C9 (as claimed): the planned value of 0x610 equals the seed on the 25 bits
\* of every window that is not configured, on the clamp bits 16 and 48, on
\* the reserved bits 25..31 and 57..62 and on the lock bit 63
C9_PlannerFrame ==
  \A p \in Plans :
    LET v == PlannedValue(p[2], MSR_PKG_POWER_LIMIT)
        seed == msr[0][MSR_PKG_POWER_LIMIT]
        kept == {16, 48, 63} \cup (25..31) \cup (57..62)
    IN /\ v \cap kept = seed \cap kept
       /\ \A w \in Windows(p[1]) :
            ~Configured(w) => v \cap (w[1]..(w[1] + 24)) = seed \cap (w[1]..(w[1] + 24))

\* C10: for every configured window whose pl fits in 15 bits, the planned
\* value of 0x610 has the enable bit set, pl in the power limit field and the
\* quantized (y, z) in the time window field, whatever the seed was
C10_ConfiguredWindowFields ==
  \A p \in Plans : \A w \in Windows(p[1]) :
    (Configured(w) /\ PlFits(w)) =>
      LET v == PlannedValue(p[2], MSR_PKG_POWER_LIMIT)
      IN /\ (w[1] + 15) \in v
         /\ Field(v, w[1], 15) = PlOf(w)
         /\ IsCeiling(Field(v, w[1] + 17, 5), Field(v, w[1] + 22, 2), Unwrap(w[3]),
                      Field(msr[0][MSR_RAPL_POWER_UNIT], 16, 4))

\* C10 witness: 45 W at a power unit of 1/8 W planned as pl = 360 with the
\* enable bit, over a seed with every bit of the window set
C10_Witness ==
  /\ main_pc = "build_ac"
  /\ Unwrap(config).battery.pl1_tdp_w = Some(45)
  /\ IsSome(Unwrap(config).battery.pl1_duration)
  /\ Field(msr[0][MSR_RAPL_POWER_UNIT], 0, 4) = 3
  /\ msr[0][MSR_PKG_POWER_LIMIT] = 0..62
  /\ Field(PlannedValue(msr_updates_battery, MSR_PKG_POWER_LIMIT), 0, 15) = 360
  /\ 15 \in PlannedValue(msr_updates_battery, MSR_PKG_POWER_LIMIT)

\* the exponent of the time unit the planner reads from 0x606
TimeUnitExp == Field(msr[0][MSR_RAPL_POWER_UNIT], 16, 4)

\* the smallest and the largest entry of the table
SmallestLimit == time_limit(0, 0, TimeUnitExp)

LargestLimit == time_limit(31, 3, TimeUnitExp)

\* the modes of the configuration main has read
Modes == IF IsSome(config) THEN {Unwrap(config).battery, Unwrap(config).ac} ELSE {}

\* a configured window whose duration exceeds the largest entry
OutOfRange(w) == Configured(w) /\ ~DyLeq(Unwrap(w[3]), LargestLimit)

\* C11: for every time unit and every duration d of a configured window that
\* does not exceed the largest entry, the planner finds a time window, and
\* the (y, z) it packs is the smallest tabulated duration that is >= d,
\* never a smaller one; it is (0, 0) when d is at or below the smallest entry
C11_QuantizeCeiling ==
  /\ \A m \in Modes :
       build_msr_updates(m, msr[0], unreadable, overflow_checks).status # "Ok"
         => \E w \in Windows(m) : OutOfRange(w)
  /\ \A p \in Plans : \A w \in Windows(p[1]) :
       Configured(w) =>
         LET v == PlannedValue(p[2], MSR_PKG_POWER_LIMIT)
             y == Field(v, w[1] + 17, 5)
             z == Field(v, w[1] + 22, 2)
         IN /\ IsCeiling(y, z, Unwrap(w[3]), TimeUnitExp)
            /\ DyLeq(Unwrap(w[3]), SmallestLimit) => (y = 0 /\ z = 0)

\* C11 witness: with the time unit 1/1024 s, 41 * 2^-15 s lies between the
\* entries 1.25/1024 s and 1.5/1024 s and is planned as (y, z) = (0, 2)
C11_Witness ==
  /\ main_pc = "build_ac"
  /\ Unwrap(config).battery.pl1_duration = Some(Dy(41, -15))
  /\ TimeUnitExp = 10
  /\ Field(PlannedValue(msr_updates_battery, MSR_PKG_POWER_LIMIT), 17, 5) = 0
  /\ Field(PlannedValue(msr_updates_battery, MSR_PKG_POWER_LIMIT), 22, 2) = 2

\* the mode main is about to plan
ModeBeingBuilt ==
  IF main_pc = "build_battery" THEN {Unwrap(config).battery}
  ELSE IF main_pc = "build_ac" THEN {Unwrap(config).ac}
  ELSE {}

\* the plan of a mode with a window out of range leaves the 25 bits of that
\* window as they were read
OutOfRangeFieldKept ==
  \A m \in Modes : \A w \in Windows(m) :
    OutOfRange(w) =>
      \A p \in Plans :
        p[1] = m =>
          PlannedValue(p[2], MSR_PKG_POWER_LIMIT) \cap (w[1]..(w[1] + 24))
            = msr[0][MSR_PKG_POWER_LIMIT] \cap (w[1]..(w[1] + 24))

\* C12 (as claimed): with a configured window whose duration exceeds the
\* largest entry, planning the mode of that window does not abort main, and
\* the plan leaves the 25 bits of the window as they were read: no time
\* window is planned for it
C12_OutOfRangeSkipsField ==
  [][/\ \A m \in ModeBeingBuilt :
          (\E w \in Windows(m) : OutOfRange(w)) => main_pc' # "panicked"
     /\ OutOfRangeFieldKept']_vars

\* the subscribed monitor takes a message from its connection
TakesMessage == mon_pc = "incoming" /\ Len(inbox') < Len(inbox)

\* C13 (as claimed): whenever the subscribed monitor takes a message that is
\* not a property change with an integer 'Online', it leaves the D-Bus loop
\* for the polling loop; none is dropped while it stays subscribed
C13_MalformedMovesToPolling ==
  [][(TakesMessage /\ Head(inbox).kind # "online") => mon_pc' = "sleep"]_vars

\* the monitor thread stays where it is: it reads nothing, takes no message
\* and passes nothing to send
MonitorRests ==
  /\ mon_pc' = mon_pc
  /\ observed' = observed
  /\ refused' = refused
  /\ Len(inbox') >= Len(inbox)

\* C14 (as claimed): once main has dropped the receiver the monitor is
\* closed, in the D-Bus loop as in the polling loop; counted from the send
\* that met the disconnection at the latest, it attempts no further send
\* and takes no further monitoring step
C14_ClosedAfterDisconnect ==
  [][(refused # <<>> /\ ~truncated') => MonitorRests]_vars

\* main calls WriteMsrBuilder::write for the first update of its batch
WritesMsr == main_pc = "write" /\ Len(write_log') = Len(write_log) + 1

\* the call of write that was logged last
LastWrite == write_log[Len(write_log)]

\* the first CPU on which a write fails, NumCpus when there is none
FirstFailing ==
  IF write_fails \cap CPUs = {} THEN NumCpus
  ELSE CHOOSE k \in write_fails \cap CPUs : \A f \in write_fails \cap CPUs : k <= f

\* C15 (as claimed): write over the N CPUs calls write_one for CPU 0, 1, ... in ascending
\* order; when the write on CPU k fails it returns the error, calls
\* write_one for no CPU after k and leaves CPUs 0..k-1 with the new value;
\* when none fails it returns Ok and all N CPUs hold the new value
C15_WriteAllFailFast ==
  [][WritesMsr =>
       LET reg == Head(batch)[1]
           val == Head(batch)[2]
           k == FirstFailing
       IN /\ \A c \in CPUs : c < k => msr'[c][reg] = val
          /\ \A c \in CPUs : c > k => msr'[c] = msr[c]
          /\ \A c \in CPUs : \A r \in Regs \ {reg} : msr'[c][r] = msr[c][r]
          /\ LastWrite'.cpus = [i \in 1..Min(k + 1, NumCpus) |-> i - 1]
          /\ LastWrite'.result = (IF k = NumCpus THEN "Ok" ELSE "Err")]_vars

\* the (msr, value) pairs main has called write for after its j-th
\* reception, in the order of the calls
WritesAfter(j) ==
  LET calls == SelectSeq(write_log, LAMBDA e : e.after = j)
  IN [i \in 1..Len(calls) |-> <<calls[i].msr, calls[i].value>>]

\* the list main selected at its j-th reception
SelectedAt(j) == select_updates(received[j][1], msr_updates_battery, msr_updates_ac)

\* the calls made for a transition that was followed by another are the
\* whole list, and the calls made so far for the last one, followed by
\* those main still has to make, are the whole list too
ListsInFull ==
  /\ \A j \in 1..(Len(received) - 1) : WritesAfter(j) = SelectedAt(j)
  /\ (main_pc \in {"recv", "write"} /\ received # <<>>) =>
       WritesAfter(Len(received)) \o batch = SelectedAt(Len(received))

\* C16 (as claimed): for every transition main calls write once for every
\* update of the selected list, in list order, whatever the earlier calls
\* came to: a call of write, failed or not, leaves main with the rest of
\* the list to write or back at the reception of the next transition
C16_BatchAppliedInFull ==
  [][~truncated' =>
       /\ ListsInFull'
       /\ WritesMsr => (main_pc' \in {"recv", "write"} /\ batch' = Tail(batch))]_vars

\* C17 (as claimed): main's thread ends, by a return or by a panic, only
\* when config.toml could not be read or parsed; a register that cannot be
\* read while planning, a duration or power that cannot be encoded, and a
\* failed initial read of the power source leave the program running
C17_OnlyConfigErrorTerminates ==
  main_pc \in {"panicked", "exited"} => ~IsSome(config)

\* the transitions the monitor has passed to send that main has not
\* received
Outstanding ==
  Len(ChangesOnly(Unwrap(initial), Tail(ObservedStates))) - Len(received)

\* the send stays pending: the thread reads nothing, takes no message and
\* keeps its last known state
SendPends ==
  /\ mon_pc' = mon_pc
  /\ new_state' = new_state
  /\ current_state' = current_state
  /\ observed' = observed
  /\ Len(inbox') >= Len(inbox)

\* main accepts the state being sent
SendAccepted ==
  /\ received' = Append(received, <<new_state, observed[Len(observed)][2]>>)
  /\ current_state' = new_state
  /\ observed' = observed

\* C18 (as claimed): the channel has capacity zero: at no time is more than
\* one transition passed to send and not yet received; while a send is
\* pending the monitor makes no observation and keeps its last known state;
\* and a send ends only by main receiving the state that is sent
C18_RendezvousHandOff ==
  [][~truncated' =>
       /\ IsSome(initial) => (Outstanding <= 1 /\ Outstanding' <= 1)
       /\ Sending => (SendPends \/ SendAccepted)]_vars

\* the thread is in the polling loop
Polling == mon_pc \in {"sleep", "send_poll"}

\* a read of the polling loop fails
PollFails ==
  /\ mon_pc = "sleep"
  /\ Len(observed') = Len(observed) + 1
  /\ observed'[Len(observed')][1] = "Err"

\* C19 (as claimed): once in the polling loop the thread stays in it and
\* never goes back to the D-Bus loop; a read that fails there sends nothing,
\* leaves current_state as it is and takes the thread back to the sleep
\* before the next read
C19_PollingForGood ==
  [][/\ Polling => Polling'
     /\ PollFails => /\ mon_pc' = "sleep"
                     /\ current_state' = current_state
                     /\ Emitted' = Emitted]_vars

\* every call of write was made after a reception, for an update of the
\* list the received state selected
WritesFollowReception ==
  \A i \in DOMAIN write_log :
    /\ write_log[i].after \in 1..Len(received)
    /\ \E k \in DOMAIN SelectedAt(write_log[i].after) :
         SelectedAt(write_log[i].after)[k] = <<write_log[i].msr, write_log[i].value>>

\* a call of write made for the initial state follows the second reception
\* or a later one, and two changes of the power source
InitialListAfterReturn ==
  \A i \in DOMAIN write_log :
    received[write_log[i].after][1] = Unwrap(initial) =>
      (write_log[i].after >= 2 /\ changes >= 2)

\* C20: main writes no register before it has received a state from the
\* monitor; every call of write was made for an update of the list that a
\* received state selected; and the list of the initial state is written
\* only once that state has been received, which takes the power source
\* changing away from it and back
C20_NoWriteBeforeFirstTransition ==
  [][~truncated' =>
       /\ received = <<>> => (write_log = <<>> /\ msr' = msr)
       /\ WritesFollowReception'
       /\ InitialListAfterReturn']_vars

\* C20 witness: started on AC, main has written the battery list after the
\* first transition and writes the AC list only now, after the second
C20_Witness ==
  /\ initial = Some(AC)
  /\ ReceivedStates = <<Battery, AC>>
  /\ WritesAfter(1) = msr_updates_battery
  /\ WritesAfter(2) # <<>>
  /\ WritesAfter(2) = msr_updates_ac

\* a sequence back to front
Reverse(s) == [i \in 1..Len(s) |-> s[Len(s) + 1 - i]]

\* for each value tu of the time unit field, at tu + 1: no two of the 128
\* entries, as enumerated, have the same duration
DistinctLimitsFor ==
  SubSeq([i \in 1..16 |->
            LET arr == unsorted_time_limits(i - 1)
            IN \A a \in 1..128, b \in 1..128 :
                 a < b => (DyLess(arr[a].lim, arr[b].lim)
                             \/ DyLess(arr[b].lim, arr[a].lim))], 1, 16)

\* for each value of the time unit field: every entry of the sorted table is
\* below the next
AscendingFor ==
  SubSeq([i \in 1..16 |->
            \A k \in 1..127 :
              DyLess(time_limits_for[i][k].lim, time_limits_for[i][k + 1].lim)],
         1, 16)

\* for each value of the time unit field: the table sorted from the
\* enumeration taken back to front (z from 3 down, y from 31 down)
time_limits_from_reversed ==
  SubSeq([i \in 1..16 |-> sort_by_lim(Reverse(unsorted_time_limits(i - 1)))],
         1, 16)

\* the entries of the sorted table that have the duration of (y, z)
EntriesAt(y, z, tu) ==
  {k \in 1..128 : /\ DyLeq(time_limits(tu)[k].lim, time_limit(y, z, tu))
                  /\ DyLeq(time_limit(y, z, tu), time_limits(tu)[k].lim)}

\* C21: for the time unit the planner reads, the 128 durations
\* 2^y * (1 + z/4) * time_unit are pairwise distinct and the sorted table is
\* strictly ascending; the table is the same when the entries are enumerated
\* in the opposite order before the sort, and the duration of every (y, z)
\* the planner packs belongs to one entry only, so no tie is ever broken
C21_TableStrictlyAscending ==
  /\ DistinctLimitsFor[TimeUnitExp + 1]
  /\ AscendingFor[TimeUnitExp + 1]
  /\ time_limits_from_reversed[TimeUnitExp + 1] = time_limits(TimeUnitExp)
  /\ \A p \in Plans : \A w \in Windows(p[1]) :
       (Configured(w) /\ ~OutOfRange(w)) =>
         LET v == PlannedValue(p[2], MSR_PKG_POWER_LIMIT)
             y == Field(v, w[1] + 17, 5)
             z == Field(v, w[1] + 22, 2)
         IN /\ Cardinality(EntriesAt(y, z, TimeUnitExp)) = 1
            /\ find_time_limit(time_limits_from_reversed[TimeUnitExp + 1],
                               Unwrap(w[3])) \in EntriesAt(y, z, TimeUnitExp)

\* C21 witness: with the time unit 1 s the planner has packed 28 s, which is
\* the entry 2^4 * 1.75 itself, as (y, z) = (4, 3); the sorted table holds
\* that duration at place 20 only, between 24 s and 32 s
C21_Witness ==
  /\ main_pc = "build_ac"
  /\ TimeUnitExp = 0
  /\ Unwrap(config).battery.pl1_duration = Some(Dy(28, 0))
  /\ Field(PlannedValue(msr_updates_battery, MSR_PKG_POWER_LIMIT), 17, 5) = 4
  /\ Field(PlannedValue(msr_updates_battery, MSR_PKG_POWER_LIMIT), 22, 2) = 3
  /\ EntriesAt(4, 3, 0) = {20}
  /\ time_limits(0)[19].y = 4 /\ time_limits(0)[19].z = 2
  /\ time_limits(0)[21].y = 5 /\ time_limits(0)[21].z = 0

=============================================================================
